---- MODULE Spec2Model ----
(***************************************************************************)
(* FrameFinder: two variants of a small FastAPI server around the FiftyOne *)
(* dataset library.  variant 1 is src/proj.py (BackgroundTask registry,    *)
(* graceful signal handling), variant 2 is src/proj1.py (eager frame       *)
(* preload, all-tasks cancellation sweep, force_shutdown).                 *)
(*                                                                         *)
(* The model keeps the module-level state of the program (datasets_cache,  *)
(* frames_cache, background_tasks), the external library's storage, the    *)
(* asyncio tasks the program creates and the worker threads that           *)
(* asyncio.to_thread starts.  Coroutine code between two awaits is one     *)
(* atomic step of the event loop; worker threads interleave freely.        *)
(***************************************************************************)
EXTENDS Integers, Sequences, FiniteSets, Bags, TLC

(***************************************************************************)
(* Bounds of the model.                                                    *)
(***************************************************************************)
\* launch requests that can be in flight at the same time
MaxLaunch == 2
\* datasets the external library creates during one run (handle identities)
MaxGen == 1

\* dataset names used by requests and by the external storage
Names == {"demo", "old"}
\* fo.list_datasets() returns the names sorted
NamesSorted == <<"demo", "old">>

(***************************************************************************)
(* The file system seen by os.path.exists and os.walk.  File names are     *)
(* sequences of characters so that lower() and endswith() are computed.    *)
(***************************************************************************)
F_a_mp4 == <<"a", ".", "m", "p", "4">>
F_b_MP4 == <<"b", ".", "M", "P", "4">>
F_c_Mp4 == <<"c", ".", "M", "p", "4">>
F_dot_mp4 == <<".", "m", "p", "4">>
F_notes_txt == <<"n", ".", "t", "x", "t">>
F_a_mp4_bak == <<"a", ".", "m", "p", "4", ".", "b", "a", "k">>
F_mp4 == <<"m", "p", "4">>
F_old_mp4 == <<"o", ".", "m", "p", "4">>

Leaf(files) == [files |-> files, dirs |-> {}]

\* /tmp/videos: a.mp4 b.MP4 notes.txt sub/a.mp4 sub/a.mp4.bak sub/.mp4
\*              sub/x.mp4/mp4 sub/x.mp4/c.Mp4
VideosTree ==
    [files |-> {F_a_mp4, F_b_MP4, F_notes_txt},
     dirs |-> {[name |-> "sub",
                node |-> [files |-> {F_a_mp4, F_a_mp4_bak, F_dot_mp4},
                          dirs |-> {[name |-> "x.mp4",
                                     node |-> Leaf({F_mp4, F_c_Mp4})]}]]}]

\* /tmp/clips: deep/c.Mp4 and deep/notes.txt
ClipsTree ==
    [files |-> {},
     dirs |-> {[name |-> "deep", node |-> Leaf({F_c_Mp4, F_notes_txt})]}]

\* /tmp/notes: only files that are no videos
NotesTree == Leaf({F_notes_txt, F_mp4})

Dirs == {"/tmp/videos", "/tmp/clips", "/tmp/notes", "/nope"}

FS ==
    [d \in Dirs |->
        CASE d = "/tmp/videos" -> [exists |-> TRUE, tree |-> VideosTree]
          [] d = "/tmp/clips" -> [exists |-> TRUE, tree |-> ClipsTree]
          [] d = "/tmp/notes" -> [exists |-> TRUE, tree |-> NotesTree]
          [] OTHER -> [exists |-> FALSE, tree |-> Leaf({})]]

\* a handler without the directory check
path_always_exists(dataset_dir) == TRUE

\* os.path.exists(dataset_dir)
path_exists(dataset_dir) == FS[dataset_dir].exists

\* str.lower() on one character
LowerChar(c) ==
    CASE c = "M" -> "m"
      [] c = "P" -> "p"
      [] OTHER -> c

\* file.lower()
Lower(s) == [i \in DOMAIN s |-> LowerChar(s[i])]

\* str.endswith(suffix)
EndsWith(s, suffix) ==
    /\ Len(s) >= Len(suffix)
    /\ SubSeq(s, Len(s) - Len(suffix) + 1, Len(s)) = suffix

VideoExt == <<".", "m", "p", "4">>

\* the test without lower(): only lower-case extensions pass
IsVideoCaseSensitive(file) == EndsWith(file, VideoExt)

\* file.lower().endswith(".mp4")
IsVideo(file) == EndsWith(Lower(file), VideoExt)

\* os.walk(dataset_dir): every (subdir, file) pair below the directory
RECURSIVE Walk(_, _, _)
Walk(dir, sub, node) ==
    {[dir |-> dir, sub |-> sub, file |-> f] : f \in node.files}
        \cup UNION {Walk(dir, Append(sub, e.name), e.node) : e \in node.dirs}

\* the samples create_dataset adds: one fo.Sample(filepath=...) per video file
WalkSamples(dataset_dir) ==
    {p \in Walk(dataset_dir, <<>>, FS[dataset_dir].tree) : IsVideo(p.file)}

\* a sample that only datasets stored before this run contain
LegacySample == [dir |-> "/archive", sub |-> <<>>, file |-> F_old_mp4]


(***************************************************************************)
(* State.                                                                  *)
(***************************************************************************)
VARIABLES
    variant,            \* 1: src/proj.py, 2: src/proj1.py
    storage,            \* the external library's datasets, by name
    nextGen,            \* identity of the next dataset object fo.Dataset makes
    datasets_cache,     \* module global datasets_cache
    frames_cache,       \* module global frames_cache
    phase,              \* "startup" until the startup hook has finished
    task,               \* asyncio tasks: main, lifespan, force
    offloaded,          \* bag of the asyncio.to_thread calls and their awaiters
    hook,               \* the shutdown hook's progress
    stop_calls,         \* calls of fo.core.service.stop()
    last                \* what the last step did at the HTTP interface

vars ==
    <<variant, storage, nextGen, datasets_cache, frames_cache, phase, task,
      offloaded, hook, stop_calls, last>>

SysTasks == {"main", "lifespan", "force"}
Terminal == {"done", "failed", "cancelled"}

\* a dataset object: gen tells one fo.Dataset object from the next of that name
NoDataset == [exists |-> FALSE, gen |-> -1, samples |-> {}]
NoFrames == [gen |-> -1, samples |-> {}]
\* last: the request the step handled and the status code it answered (0:
\* nothing answered yet); page: the names a list page shows; logged: the
\* launch had logged a failure; deleted: create_dataset deleted a dataset
NoResponse ==
    [op |-> "none", name |-> "", dir |-> "", code |-> 0, page |-> {},
     logged |-> FALSE, deleted |-> FALSE]
EmptyDict == [kind |-> "dict", items |-> {}, map |-> <<>>]

\* One asyncio.to_thread call.  awaiter: the coroutine awaiting it (the launch
\* handler).  task: the asyncio.create_task wrapper of variant 1 ("none" in
\* variant 2).  registered: the task is in background_tasks.  todo: the task
\* is in the shutdown hook's list and not yet handled.  thread: the worker
\* thread's position; dataset, frames: its local variables; err: its except
\* clause logged a failure.
Offload(kind, name, taskState, reg) ==
    [kind |-> kind, name |-> name, awaiter |-> "pending", task |-> taskState,
     registered |-> reg, todo |-> FALSE, thread |-> "start", dataset |-> -1,
     frames |-> NoFrames, err |-> FALSE]

Ops == BagToSet(offloaded)
Replace(op, new) == (offloaded (-) SetToBag({op})) (+) SetToBag({new})

\* module global background_tasks: the registered tasks
background_tasks == {op \in Ops : op.registered}

\* a handler without the membership check
InCacheAlways(cache, name) == TRUE

\* a handler that asks the library's storage instead of the cache
InStorage(cache, name) == storage[name].exists

\* name in datasets_cache (a dict, or the list fo.list_datasets returned)
InCache(cache, name) ==
    IF cache.kind = "list" THEN name \in cache.items ELSE name \in DOMAIN cache.map

\* the names a template enumerates from datasets_cache
CacheNames(cache) ==
    IF cache.kind = "list" THEN cache.items ELSE DOMAIN cache.map

\* d[key] = value on a dict
DictPut(map, key, value) ==
    [k \in DOMAIN map \cup {key} |-> IF k = key THEN value ELSE map[k]]

\* fo.list_datasets()
fo_list_datasets == {n \in Names : storage[n].exists}

\* dataset.to_frames(sample_frames=True): a view over the dataset's samples
to_frames(name, gen) == [gen |-> gen, samples |-> storage[name].samples]

\* a handle is usable while its dataset object is the stored one
Live(name, gen) == storage[name].exists /\ storage[name].gen = gen

\* a launch that takes every cached frames view for absent
TruthyNever(frames) == FALSE

\* truth value of a frames view: None and an empty view are falsy
Truthy(frames) == frames.gen # -1 /\ frames.samples # {}

\* what the library stores before the process starts
LegacyDataset == [exists |-> TRUE, gen |-> 0, samples |-> {LegacySample}]
EmptyDataset == [exists |-> TRUE, gen |-> 0, samples |-> {}]
InitialStorage ==
    {[n \in Names |-> NoDataset],
     [n \in Names |-> IF n = "old" THEN LegacyDataset ELSE EmptyDataset]}

Init ==
    /\ variant \in {1, 2}
    /\ storage \in InitialStorage
    /\ nextGen = 1
    /\ datasets_cache = EmptyDict
    /\ frames_cache = <<>>
    /\ phase = "startup"
    /\ task = [t \in SysTasks |-> IF t = "force" THEN "none" ELSE "pending"]
    /\ offloaded = EmptyBag
    /\ hook = "idle"
    /\ stop_calls = 0
    /\ last = NoResponse

(***************************************************************************)
(* Startup hook.                                                           *)
(***************************************************************************)
\* the startup task of variant 1 after fo.list_datasets raised
FailedPreload ==
    [Offload("preload", "", "failed", TRUE) EXCEPT !.awaiter = "done",
                                                   !.thread = "raised", !.err = TRUE]

\* the startup hook has returned; failed: its except clause logged an error
StartupOver(failed) == [NoResponse EXCEPT !.op = "startup", !.logged = failed]

\* a startup hook that stores the names it has before the failure is handled
preload_datasets_v1_assigns_first ==
    /\ variant = 1
    /\ phase = "startup"
    /\ \E ok \in BOOLEAN :
          /\ datasets_cache' =
                 [kind |-> "list", items |-> fo_list_datasets, map |-> <<>>]
          /\ offloaded' = IF ok THEN offloaded
                          ELSE offloaded (+) SetToBag({FailedPreload})
          /\ last' = StartupOver(~ok)
    /\ phase' = "serving"
    /\ UNCHANGED <<variant, storage, nextGen, frames_cache, task, hook, stop_calls>>

\* variant 1: the awaited task's result, a list of names, becomes the cache
\* and the task leaves the registry; when the task raises, the except clause
\* is entered before the remove and the failed task stays registered
preload_datasets_v1 ==
    /\ variant = 1
    /\ phase = "startup"
    /\ \E ok \in BOOLEAN :
          /\ IF ok
             THEN /\ datasets_cache' =
                         [kind |-> "list", items |-> fo_list_datasets, map |-> <<>>]
                  /\ UNCHANGED offloaded
             ELSE /\ offloaded' = offloaded (+) SetToBag({FailedPreload})
                  /\ UNCHANGED datasets_cache
          /\ last' = StartupOver(~ok)
    /\ phase' = "serving"
    /\ UNCHANGED <<variant, storage, nextGen, frames_cache, task, hook, stop_calls>>

\* the names fo.list_datasets returned, in its order
ListedNames == SelectSeq(NamesSorted, LAMBDA n : storage[n].exists)

\* variant 2: list, load every handle, then compute frames name by name;
\* outcome "list" or "load": that call raised; k: the first k frames views
\* were computed and, for k below the number of names, the next one raised
preload_datasets_v2 ==
    /\ variant = 2
    /\ phase = "startup"
    /\ \E outcome \in {"list", "load", "frames"}, k \in 0..Len(ListedNames) :
          /\ outcome # "frames" => k = 0
          /\ datasets_cache' =
                IF outcome \in {"list", "load"}
                THEN datasets_cache
                ELSE [kind |-> "dict", items |-> {},
                      map |-> [n \in fo_list_datasets |-> storage[n].gen]]
          /\ frames_cache' =
                IF outcome = "frames"
                THEN [n \in {ListedNames[j] : j \in 1..k} |->
                        to_frames(n, storage[n].gen)]
                ELSE frames_cache
          /\ last' = StartupOver(outcome # "frames" \/ k < Len(ListedNames))
    /\ phase' = "serving"
    /\ UNCHANGED <<variant, storage, nextGen, task, offloaded, hook, stop_calls>>

\* an event loop that runs the launch inline: nothing is accepted while a
\* launch is on its way
ServingInline ==
    /\ phase = "serving"
    /\ hook = "idle"
    /\ task["main"] = "pending" /\ task["lifespan"] = "pending"
    /\ task["force"] = "none"
    /\ \A op \in Ops : op.thread \notin {"start", "computing", "session"}

\* requests are accepted once startup is over and until a shutdown begins
Serving ==
    /\ phase = "serving"
    /\ hook = "idle"
    /\ task["main"] = "pending" /\ task["lifespan"] = "pending"
    /\ task["force"] = "none"

(***************************************************************************)
(* GET /datasets                                                           *)
(***************************************************************************)
list_datasets ==
    /\ Serving
    /\ last' = [op |-> "list", name |-> "", dir |-> "", code |-> 200,
                page |-> CacheNames(datasets_cache), logged |-> FALSE, deleted |-> FALSE]
    /\ UNCHANGED <<variant, storage, nextGen, datasets_cache, frames_cache, phase,
                   task, offloaded, hook, stop_calls>>

(***************************************************************************)
(* POST /create_dataset                                                    *)
(***************************************************************************)
\* a create_dataset that adds to the stored dataset instead of deleting it
created_dataset_kept(dataset_name, dataset_dir) ==
    [exists |-> TRUE, gen |-> nextGen,
     samples |-> storage[dataset_name].samples \cup WalkSamples(dataset_dir)]

\* a create_dataset that refills the stored dataset object in place, so that
\* handles to it stay valid
created_dataset_in_place(dataset_name, dataset_dir) ==
    [exists |-> TRUE,
     gen |-> IF storage[dataset_name].exists THEN storage[dataset_name].gen
             ELSE nextGen,
     samples |-> WalkSamples(dataset_dir)]

\* the dataset create_dataset leaves in the library's storage: a stored
\* dataset of the name is deleted, the new one holds the walk's samples
created_dataset(dataset_name, dataset_dir) ==
    [exists |-> TRUE, gen |-> nextGen, samples |-> WalkSamples(dataset_dir)]

\* a handler that deletes the stored dataset before it checks the directory
create_dataset_deletes_first(dataset_name, dataset_dir) ==
    /\ Serving
    /\ IF ~path_exists(dataset_dir)
       THEN /\ storage' = [storage EXCEPT ![dataset_name] = NoDataset]
            /\ last' = [op |-> "create", name |-> dataset_name, dir |-> dataset_dir,
                        code |-> 400, page |-> {}, logged |-> FALSE,
                        deleted |-> storage[dataset_name].exists]
            /\ UNCHANGED <<nextGen, datasets_cache>>
       ELSE /\ nextGen <= MaxGen
            /\ storage' = [storage EXCEPT
                              ![dataset_name] = created_dataset(dataset_name, dataset_dir)]
            /\ nextGen' = nextGen + 1
            /\ datasets_cache' =
                   IF datasets_cache.kind = "list" THEN datasets_cache
                   ELSE [datasets_cache EXCEPT
                            !.map = DictPut(datasets_cache.map, dataset_name, nextGen)]
            /\ last' = [op |-> "create", name |-> dataset_name, dir |-> dataset_dir,
                        code |-> IF datasets_cache.kind = "list" THEN 500 ELSE 200,
                        page |-> {}, logged |-> FALSE,
                        deleted |-> storage[dataset_name].exists]
    /\ UNCHANGED <<variant, frames_cache, phase, task, offloaded, hook, stop_calls>>

\* the handler has no await: it is one step of the event loop
create_dataset(dataset_name, dataset_dir) ==
    /\ Serving
    /\ IF ~path_exists(dataset_dir)
       THEN /\ last' = [op |-> "create", name |-> dataset_name, dir |-> dataset_dir,
                        code |-> 400, page |-> {}, logged |-> FALSE, deleted |-> FALSE]
            /\ UNCHANGED <<storage, nextGen, datasets_cache>>
       ELSE /\ nextGen <= MaxGen
            /\ storage' = [storage EXCEPT
                              ![dataset_name] = created_dataset(dataset_name, dataset_dir)]
            /\ nextGen' = nextGen + 1
            /\ IF datasets_cache.kind = "list"
               THEN \* list[str] = value raises TypeError: the framework answers 500
                    /\ UNCHANGED datasets_cache
                    /\ last' = [op |-> "create", name |-> dataset_name,
                                dir |-> dataset_dir, code |-> 500, page |-> {},
                                logged |-> FALSE,
                                deleted |-> storage[dataset_name].exists]
               ELSE /\ datasets_cache' =
                          [datasets_cache EXCEPT
                              !.map = DictPut(datasets_cache.map, dataset_name, nextGen)]
                    /\ last' = [op |-> "create", name |-> dataset_name,
                                dir |-> dataset_dir, code |-> 200, page |-> {},
                                logged |-> FALSE,
                                deleted |-> storage[dataset_name].exists]
    /\ UNCHANGED <<variant, frames_cache, phase, task, offloaded, hook, stop_calls>>

(***************************************************************************)
(* GET /api/launch_fiftyone/{dataset_name}                                 *)
(***************************************************************************)
\* launch requests whose worker thread was started and that were not answered
InFlight == BagCardinality(offloaded) - Cardinality({op \in Ops : op.kind = "preload"})

\* a handler that starts the worker thread first and checks the name after
launch_fiftyone_endpoint_checks_late(dataset_name) ==
    /\ Serving
    /\ InFlight < MaxLaunch
    /\ offloaded' = offloaded (+) SetToBag({
           IF variant = 1
           THEN Offload("launch", dataset_name, "pending", TRUE)
           ELSE Offload("launch", dataset_name, "none", FALSE)})
    /\ last' = [op |-> "launch", name |-> dataset_name, dir |-> "",
                code |-> IF InCache(datasets_cache, dataset_name) THEN 0 ELSE 404,
                page |-> {}, logged |-> FALSE, deleted |-> FALSE]
    /\ UNCHANGED <<variant, storage, nextGen, datasets_cache, frames_cache, phase,
                   task, hook, stop_calls>>

\* up to the await: the 404 check, then the worker thread is started
\* (variant 1 wraps it in a task and registers the task)
launch_fiftyone_endpoint(dataset_name) ==
    /\ Serving
    /\ IF ~InCache(datasets_cache, dataset_name)
       THEN /\ last' = [op |-> "launch", name |-> dataset_name, dir |-> "",
                        code |-> 404, page |-> {}, logged |-> FALSE, deleted |-> FALSE]
            /\ UNCHANGED offloaded
       ELSE /\ InFlight < MaxLaunch
            /\ offloaded' = offloaded (+) SetToBag({
                   IF variant = 1
                   THEN Offload("launch", dataset_name, "pending", TRUE)
                   ELSE Offload("launch", dataset_name, "none", FALSE)})
            /\ last' = [op |-> "launch", name |-> dataset_name, dir |-> "",
                        code |-> 0, page |-> {}, logged |-> FALSE, deleted |-> FALSE]
    /\ UNCHANGED <<variant, storage, nextGen, datasets_cache, frames_cache, phase,
                   task, hook, stop_calls>>

\* the worker thread leaves launch_fiftyone; its locals are gone, the
\* to_thread task of variant 1 is done unless it was cancelled before
ThreadReturns(op, err) ==
    offloaded' = Replace(op,
        [op EXCEPT !.thread = "returned", !.err = err, !.dataset = -1,
                   !.frames = NoFrames,
                   !.task = IF op.task = "pending" THEN "done" ELSE op.task])

\* a launch_fiftyone without its except clause: the error leaves the thread
launch_failure_uncaught(op) ==
    offloaded' = Replace(op,
        [op EXCEPT !.thread = "raised", !.err = TRUE, !.dataset = -1,
                   !.frames = NoFrames,
                   !.task = IF op.task = "pending" THEN "failed" ELSE op.task])

\* except Exception as e: logger.error(...) in launch_fiftyone
launch_failure(op) == ThreadReturns(op, TRUE)

\* worker thread, up to the first slow call.  Frames cached: they are taken
\* and fo.launch_app(frames) opens the session.  Not cached: the dataset
\* handle is fetched (variant 1 loads it from the library, variant 2 reads
\* datasets_cache).  lib_ok: the library call of this step does not raise.
launch_fiftyone_lookup(op) ==
    /\ op.thread = "start"
    /\ LET name == op.name
           cached == IF name \in DOMAIN frames_cache THEN frames_cache[name] ELSE NoFrames
           hit == IF variant = 1 THEN name \in DOMAIN frames_cache ELSE Truthy(cached)
           dataset == IF variant = 1 THEN [exists |-> storage[name].exists,
                                           gen |-> storage[name].gen]
                      ELSE IF datasets_cache.kind = "dict" /\ name \in DOMAIN datasets_cache.map
                           THEN [exists |-> TRUE, gen |-> datasets_cache.map[name]]
                           ELSE [exists |-> FALSE, gen |-> -1]
       IN  \E lib_ok \in BOOLEAN :
              IF hit
              THEN IF lib_ok
                   THEN offloaded' = Replace(op, [op EXCEPT !.thread = "session",
                                                            !.frames = cached])
                   ELSE launch_failure(op)
              ELSE IF dataset.exists /\ (lib_ok \/ variant = 2)
                   THEN offloaded' = Replace(op, [op EXCEPT !.thread = "computing",
                                                            !.dataset = dataset.gen])
                   ELSE launch_failure(op)
    /\ last' = NoResponse
    /\ UNCHANGED <<variant, storage, nextGen, datasets_cache, frames_cache, phase,
                   task, hook, stop_calls>>

\* worker thread: frames = dataset.to_frames(...), frames_cache[dataset_name]
\* = frames, session = fo.launch_app(frames).  A deleted dataset raises.
launch_fiftyone_compute(op) ==
    /\ op.thread = "computing"
    /\ LET name == op.name
           gen == op.dataset
       IN  \E outcome \in {"ok", "to_frames raises", "launch_app raises"} :
              IF outcome = "to_frames raises" \/ ~Live(name, gen)
              THEN /\ launch_failure(op)
                   /\ UNCHANGED frames_cache
              ELSE /\ frames_cache' = DictPut(frames_cache, name, to_frames(name, gen))
                   /\ IF outcome = "ok"
                      THEN offloaded' = Replace(op,
                               [op EXCEPT !.thread = "session", !.dataset = -1,
                                          !.frames = to_frames(name, gen)])
                      ELSE launch_failure(op)
    /\ last' = NoResponse
    /\ UNCHANGED <<variant, storage, nextGen, datasets_cache, phase, task, hook,
                   stop_calls>>

\* worker thread: session.wait() returns when the session is closed, or raises
launch_fiftyone_session_wait(op) ==
    /\ op.thread = "session"
    /\ \E ok \in BOOLEAN :
          IF ok THEN ThreadReturns(op, FALSE) ELSE launch_failure(op)
    /\ last' = NoResponse
    /\ UNCHANGED <<variant, storage, nextGen, datasets_cache, frames_cache, phase,
                   task, hook, stop_calls>>

\* a handler that answers as soon as the session is open, without the await
launch_respond_early(op) ==
    /\ op.kind = "launch"
    /\ op.awaiter = "pending"
    /\ op.thread \in {"session", "returned"}
    /\ last' = [op |-> "launch", name |-> op.name, dir |-> "", code |-> 200,
                page |-> {}, logged |-> op.err, deleted |-> FALSE]
    /\ offloaded' = Replace(op, [op EXCEPT !.awaiter = "done"])
    /\ UNCHANGED <<variant, storage, nextGen, datasets_cache, frames_cache, phase,
                   task, hook, stop_calls>>

\* the handler after its await: the offloaded call is over, variant 1 removes
\* the task from the registry, the acknowledgement is returned.  An exception
\* out of the awaited call skips the remove and reaches the framework (500).
launch_respond(op) ==
    /\ op.kind = "launch"
    /\ op.awaiter = "pending"
    /\ op.thread \in {"returned", "raised"}
    /\ IF op.thread = "returned"
       THEN /\ last' = [op |-> "launch", name |-> op.name, dir |-> "", code |-> 200,
                        page |-> {}, logged |-> op.err, deleted |-> FALSE]
            /\ offloaded' = offloaded (-) SetToBag({op})
       ELSE /\ last' = [op |-> "launch", name |-> op.name, dir |-> "", code |-> 500,
                        page |-> {}, logged |-> op.err, deleted |-> FALSE]
            /\ offloaded' = Replace(op, [op EXCEPT !.awaiter = "failed"])
    /\ UNCHANGED <<variant, storage, nextGen, datasets_cache, frames_cache, phase,
                   task, hook, stop_calls>>

(***************************************************************************)
(* Shutdown hook, variant 1: the registry loop.                            *)
(***************************************************************************)
PendingSys == {t \in SysTasks : task[t] = "pending"}

\* list(background_tasks): the hook's loop list
Listed(op) == [op EXCEPT !.todo = op.registered]

\* logger.info and list(background_tasks); the hook runs in the lifespan task
shutdown_event_v1 ==
    /\ variant = 1
    /\ phase = "serving"
    /\ hook = "idle"
    /\ task["lifespan"] = "pending"
    /\ hook' = "loop"
    /\ offloaded' = BagOfAll(Listed, offloaded)
    /\ last' = NoResponse
    /\ UNCHANGED <<variant, storage, nextGen, datasets_cache, frames_cache, phase,
                   task, stop_calls>>

\* a loop body that neither cancels nor awaits the task
shutdown_event_skip(op) ==
    /\ variant = 1
    /\ hook = "loop"
    /\ op.todo
    /\ offloaded' = Replace(op, [op EXCEPT !.todo = FALSE])
    /\ last' = NoResponse
    /\ UNCHANGED <<variant, storage, nextGen, datasets_cache, frames_cache, phase,
                   task, hook, stop_calls>>

\* one iteration: task.cancel(); await task; only CancelledError is caught.
\* Cancelling a pending to_thread task ends the task and, through its await,
\* the launch handler; the worker thread is not interrupted.  Awaiting a
\* task that failed re-raises its exception out of the hook.
shutdown_event_cancel(op) ==
    /\ variant = 1
    /\ hook = "loop"
    /\ op.todo
    /\ IF op.task = "failed"
       THEN /\ hook' = "raised"
            /\ task' = [task EXCEPT !["lifespan"] = "failed"]
            /\ UNCHANGED offloaded
       ELSE /\ UNCHANGED <<hook, task>>
            /\ offloaded' = Replace(op,
                   IF op.task = "pending"
                   THEN [op EXCEPT !.todo = FALSE, !.task = "cancelled",
                                   !.awaiter = IF op.awaiter = "pending"
                                               THEN "cancelled" ELSE op.awaiter]
                   ELSE [op EXCEPT !.todo = FALSE])
    /\ last' = NoResponse
    /\ UNCHANGED <<variant, storage, nextGen, datasets_cache, frames_cache, phase,
                   stop_calls>>

\* after the loop: fo.core.service.stop() inside try/except Exception; the
\* call is made once and the hook returns whether it succeeds or raises
shutdown_event_stop ==
    /\ hook = "loop"
    /\ \A op \in Ops : ~op.todo
    /\ stop_calls' = stop_calls + 1
    /\ hook' = "returned"
    /\ last' = NoResponse
    /\ UNCHANGED <<variant, storage, nextGen, datasets_cache, frames_cache, phase,
                   task, offloaded>>

(***************************************************************************)
(* Shutdown hook, variant 2: the all-tasks sweep.                          *)
(***************************************************************************)
\* task.cancel() reaches a request handler suspended in its await
Cancelled(op) ==
    [op EXCEPT !.awaiter = IF op.awaiter = "pending" THEN "cancelled" ELSE op.awaiter,
               !.task = IF op.task = "pending" THEN "cancelled" ELSE op.task]

\* task.cancel() on each of the given tasks and on every request handler
CancelAll(sys) ==
    /\ task' = [t \in SysTasks |-> IF t \in sys THEN "cancelled" ELSE task[t]]
    /\ offloaded' = BagOfAll(Cancelled, offloaded)

\* pending_tasks is every task but the lifespan task the hook runs in: the
\* main task, force_shutdown and the request handlers are cancelled and the
\* hook suspends in asyncio.gather
shutdown_event_v2 ==
    /\ variant = 2
    /\ phase = "serving"
    /\ hook = "idle"
    /\ task["lifespan"] = "pending"
    /\ hook' = "gather"
    /\ CancelAll(PendingSys \ {"lifespan"})
    /\ last' = NoResponse
    /\ UNCHANGED <<variant, storage, nextGen, datasets_cache, frames_cache, phase,
                   stop_calls>>

(***************************************************************************)
(* Process entry point.                                                    *)
(***************************************************************************)
\* SIGINT or SIGTERM in variant 2: asyncio.create_task(force_shutdown(server));
\* the task suspends in await server.shutdown()
signal_handler ==
    /\ variant = 2
    /\ Serving
    /\ task' = [task EXCEPT !["force"] = "pending"]
    /\ last' = NoResponse
    /\ UNCHANGED <<variant, storage, nextGen, datasets_cache, frames_cache, phase,
                   offloaded, hook, stop_calls>>

\* server.shutdown() came back without the lifespan shutdown having run (the
\* server's forced exit): force_shutdown cancels every other task, the
\* lifespan task included, and suspends in asyncio.gather
force_shutdown ==
    /\ variant = 2
    /\ task["force"] = "pending"
    /\ hook = "idle"
    /\ task["main"] = "pending"
    /\ CancelAll(PendingSys \ {"force"})
    /\ last' = NoResponse
    /\ UNCHANGED <<variant, storage, nextGen, datasets_cache, frames_cache, phase,
                   hook, stop_calls>>

\* asyncio.run(main()): once the main task is over the loop is stopped and
\* every task still pending is cancelled; a coroutine suspended in gather
\* gets CancelledError there, so the code after the gather does not run
asyncio_run ==
    /\ task["main"] \in Terminal
    /\ PendingSys # {}
    /\ CancelAll(PendingSys)
    /\ hook' = IF hook \in {"loop", "gather"} THEN "cancelled" ELSE hook
    /\ last' = NoResponse
    /\ UNCHANGED <<variant, storage, nextGen, datasets_cache, frames_cache, phase,
                   stop_calls>>

(***************************************************************************)
(* Specification.                                                          *)
(***************************************************************************)
Next ==
    \/ preload_datasets_v1
    \/ preload_datasets_v2
    \/ list_datasets
    \/ \E n \in Names, d \in Dirs : create_dataset(n, d)
    \/ \E n \in Names : launch_fiftyone_endpoint(n)
    \/ \E op \in Ops : launch_fiftyone_lookup(op)
    \/ \E op \in Ops : launch_fiftyone_compute(op)
    \/ \E op \in Ops : launch_fiftyone_session_wait(op)
    \/ \E op \in Ops : launch_respond(op)
    \/ shutdown_event_v1
    \/ \E op \in Ops : shutdown_event_cancel(op)
    \/ shutdown_event_stop
    \/ shutdown_event_v2
    \/ signal_handler
    \/ force_shutdown
    \/ asyncio_run

Spec == Init /\ [][Next]_vars

(***************************************************************************)
(* Properties.                                                             *)
(***************************************************************************)
\* C1 (as claimed): after startup, a create-dataset request whose directory
\* exists is answered 200 and leaves the name in the Dataset Cache.
C1_CreateAcknowledgedAndCached ==
    (last.op = "create" /\ FS[last.dir].exists)
        => (last.code = 200 /\ last.name \in CacheNames(datasets_cache))

\* C2: a launch request for a name that is not in the Dataset Cache is
\* answered 404; it is neither accepted nor answered 200.
C2_LaunchOfUnknownIs404 ==
    (last.op = "launch" /\ last.name \notin CacheNames(datasets_cache))
        => last.code = 404

C2_Witness ==
    /\ last.op = "launch"
    /\ last.code = 404
    /\ CacheNames(datasets_cache) # {}
    /\ last.name \notin CacheNames(datasets_cache)

\* C3: a create-dataset request whose directory does not exist is answered
\* 400 and the step leaves the Dataset Cache as it was.
C3_MissingDirectoryIs400 ==
    [][(last'.op = "create" /\ ~FS[last'.dir].exists)
          => (last'.code = 400 /\ datasets_cache' = datasets_cache)]_vars

C3_Witness ==
    /\ last.op = "create"
    /\ last.code = 400
    /\ ~FS[last.dir].exists
    /\ last.name \in CacheNames(datasets_cache)

\* the video files of each directory, written out by hand
ExpectedSamples(dir) ==
    CASE dir = "/tmp/videos" ->
            {[dir |-> dir, sub |-> <<>>, file |-> F_a_mp4],
             [dir |-> dir, sub |-> <<>>, file |-> F_b_MP4],
             [dir |-> dir, sub |-> <<"sub">>, file |-> F_a_mp4],
             [dir |-> dir, sub |-> <<"sub">>, file |-> F_dot_mp4],
             [dir |-> dir, sub |-> <<"sub", "x.mp4">>, file |-> F_c_Mp4]}
      [] dir = "/tmp/clips" ->
            {[dir |-> dir, sub |-> <<"deep">>, file |-> F_c_Mp4]}
      [] OTHER -> {}

\* N of each directory
ExpectedCount(dir) ==
    CASE dir = "/tmp/videos" -> 5
      [] dir = "/tmp/clips" -> 1
      [] OTHER -> 0

\* C4: a successful create-dataset leaves a dataset with exactly N samples,
\* one per file whose name ends in .mp4 whatever the case, at any depth.
C4_OneSamplePerVideoFile ==
    (last.op = "create" /\ last.code = 200)
        => /\ Cardinality(storage[last.name].samples) = ExpectedCount(last.dir)
           /\ storage[last.name].samples = ExpectedSamples(last.dir)

C4_Witness ==
    /\ last.op = "create"
    /\ last.code = 200
    /\ last.dir = "/tmp/videos"
    /\ Cardinality(storage[last.name].samples) = 5

\* C5: a successful create-dataset for a name the library already stores
\* replaces the stored dataset object, and the new dataset holds the video
\* files of the given directory and none of the samples only the old one had.
C5_ReplacedEntirely ==
    [][(last'.op = "create" /\ last'.code = 200 /\ storage[last'.name].exists)
          => /\ last'.deleted
             /\ storage'[last'.name].gen # storage[last'.name].gen
             /\ storage'[last'.name].samples = ExpectedSamples(last'.dir)
             /\ (storage[last'.name].samples \ ExpectedSamples(last'.dir))
                    \cap storage'[last'.name].samples = {}]_vars

C5_Witness ==
    /\ last.op = "create"
    /\ last.code = 200
    /\ last.deleted
    /\ last.dir = "/tmp/videos"
    /\ LegacySample \notin storage[last.name].samples

\* C6 (as claimed): the shutdown hook never raises.
C6_ShutdownHookNeverRaises == hook # "raised"

C8_LaunchFailureStillAcknowledged ==
    /\ (last.op = "launch" /\ last.code \notin {0, 404}) => last.code = 200
    /\ \A op \in Ops : op.kind = "launch" => op.thread # "raised" /\ op.task # "failed"

C8_Witness == last.op = "launch" /\ last.code = 200 /\ last.logged

\* C9 (as claimed): the force-shutdown routine is never cancelled before it
\* reaches its process-exit step.
C9_ForceShutdownReachesExit == task["force"] # "cancelled"

\* C10: the 200 of a launch is produced by a step that finds the launch's
\* worker thread returned, the session over or failed, and its handler
\* still waiting for it.
C10_ResponseAfterLaunchReturned ==
    [][(last'.op = "launch" /\ last'.code = 200)
          => \E op \in Ops :
                /\ op.kind = "launch" /\ op.name = last'.name
                /\ op.awaiter = "pending" /\ op.thread = "returned"
                /\ offloaded' = offloaded (-) SetToBag({op})]_vars

C10_Witness ==
    /\ last.op = "launch"
    /\ last.code = 200
    /\ ~last.logged
    /\ \E op \in Ops : op.kind = "launch" /\ op.thread = "session"

\* C11 (as claimed): in the registry variant, once the operation that
\* registered a task has finished (by returning, by an exception or by a
\* cancellation leaving its await), the task is no longer in the registry.
C11_FinishedTaskLeavesRegistry ==
    \A op \in Ops : op.awaiter # "pending" => ~op.registered

\* the shutdown path is over: the hook has ended, or no task is left
ShutdownOver ==
    \/ hook \in {"returned", "raised", "cancelled"}
    \/ (phase = "serving" /\ PendingSys = {})

\* C12 (as claimed): when the shutdown path of an execution is over, the
\* library's stop operation has been called exactly once.
C12_StopCalledExactlyOnce == ShutdownOver => stop_calls = 1

\* the step in which the worker thread of op computes a frames view from its
\* handle, stores it in frames_cache and opens the session on it
ComputesFrames(op) ==
    /\ op.thread = "computing"
    /\ offloaded' = Replace(op, [op EXCEPT !.thread = "session", !.dataset = -1,
                                           !.frames = to_frames(op.name, op.dataset)])

\* C13 (as claimed): a launch computes and stores a frames view only while
\* the Frame Cache holds no entry for the name; an entry that has been stored
\* is never recomputed or overwritten.
C13_FramesComputedOnlyWhenAbsent ==
    [][\A op \in Ops : ComputesFrames(op) => op.name \notin DOMAIN frames_cache]_vars

\* the name was recreated after its frames view was computed
Stale(name) ==
    /\ name \in DOMAIN frames_cache
    /\ frames_cache[name].gen # -1
    /\ storage[name].exists
    /\ storage[name].gen # frames_cache[name].gen

\* the step in which the worker thread of op, at its start, fetches a
\* dataset handle in order to compute a frames view
StartsComputing(op) ==
    /\ op.thread = "start"
    /\ \E g \in 0..nextGen :
          offloaded' = Replace(op, [op EXCEPT !.thread = "computing", !.dataset = g])

\* the step in which the worker thread of op, at its start, opens the
\* session on a view of the stored dataset that is not the cached one
OpensSessionOnNewFrames(op) ==
    /\ op.thread = "start"
    /\ \E g \in 0..nextGen :
          /\ to_frames(op.name, g) # frames_cache[op.name]
          /\ offloaded' = Replace(op, [op EXCEPT !.thread = "session",
                                                 !.frames = to_frames(op.name, g)])

C15_StartupFailureLeavesEmptyCache ==
    (last.op = "startup" /\ last.logged)
        => Serving /\ CacheNames(datasets_cache) = {}

\* C15 (amended): as claimed when the listing or the loading of a handle has
\* failed.  When a frames computation of the eager variant has failed, the
\* Dataset Cache holds every listed dataset and the Frame Cache the views
\* computed before the failure, at least one short of all.
C15_StartupFailureStillServes ==
    (last.op = "startup" /\ last.logged)
        => /\ Serving
           /\ \/ CacheNames(datasets_cache) = {} /\ frames_cache = <<>>
              \/ /\ variant = 2
                 /\ CacheNames(datasets_cache) = fo_list_datasets
                 /\ DOMAIN frames_cache \subseteq fo_list_datasets
                 /\ DOMAIN frames_cache # fo_list_datasets

C15_Witness ==
    /\ last.op = "startup"
    /\ last.logged
    /\ Serving
    /\ variant = 2
    /\ CacheNames(datasets_cache) = {"demo", "old"}
    /\ DOMAIN frames_cache = {"demo"}

\* a launch is in flight with its session open, and no shutdown has begun
SessionOpenWhileUp ==
    /\ phase = "serving"
    /\ hook = "idle"
    /\ task = [t \in SysTasks |-> IF t = "force" THEN "none" ELSE "pending"]
    /\ \E op \in Ops :
          op.kind = "launch" /\ op.thread = "session" /\ op.awaiter = "pending"

\* C16: while a launch is in flight with its session open, the event loop
\* takes list-datasets, create-dataset and launch requests: every such
\* request can be handled in that state (a create that makes a dataset and a
\* launch that starts a thread within the bounds MaxGen and MaxLaunch).
C16_EventLoopNotBlocked ==
    SessionOpenWhileUp
        => /\ ENABLED list_datasets
           /\ \A n \in Names, d \in Dirs :
                 (nextGen <= MaxGen \/ ~FS[d].exists) => ENABLED create_dataset(n, d)
           /\ \A n \in Names :
                 (InFlight < MaxLaunch \/ n \notin CacheNames(datasets_cache))
                     => ENABLED launch_fiftyone_endpoint(n)

\* a second launch has just been accepted, its thread started, while the
\* first launch's session is open
C16_Witness ==
    /\ SessionOpenWhileUp
    /\ last.op = "launch" /\ last.code = 0
    /\ \E op \in Ops : op.kind = "launch" /\ op.thread = "start"

\* C17: the interleaving of create and launch on one name is not excluded.
\* A create-dataset that gets past the directory check while launches for
\* its name are in flight does not wait for them, cancel them or tell them:
\* it leaves their threads as they are, and the handle or the frames view a
\* thread holds then belongs to a dataset object that is no longer stored.
C17_CreateLeavesLaunchOnOldHandle ==
    [][(last'.op = "create" /\ last'.code # 400)
          => /\ offloaded' = offloaded
             /\ frames_cache' = frames_cache
             /\ \A op \in Ops :
                   (op.kind = "launch" /\ op.name = last'.name)
                       => /\ op.dataset # -1 => storage'[op.name].gen # op.dataset
                          /\ op.frames.gen # -1
                                => storage'[op.name].gen # op.frames.gen]_vars

\* the race has happened: a create has just deleted and recreated a dataset
\* while a launch for the name is in flight, its handler waiting, and the
\* launch's session shows frames of the deleted dataset; the FramesEntry of
\* the name is that view
C17_Witness ==
    /\ last.op = "create"
    /\ last.code # 400
    /\ last.deleted
    /\ \E op \in Ops :
          /\ op.kind = "launch" /\ op.name = last.name
          /\ op.awaiter = "pending"
          /\ op.thread = "session"
          /\ op.frames.gen # storage[op.name].gen
          /\ op.frames.samples # storage[op.name].samples
          /\ frames_cache[op.name] = op.frames

\* C18: once startup is over, every name that has an entry in the Frame Cache
\* is a name of the Dataset Cache.
C18_FramesCacheWithinDatasetsCache ==
    phase = "serving" => DOMAIN frames_cache \subseteq CacheNames(datasets_cache)

\* a create has put the name in the Dataset Cache and a launch has stored
\* its frames view
C18_Witness ==
    /\ phase = "serving"
    /\ variant = 1
    /\ datasets_cache.kind = "dict"
    /\ \E n \in DOMAIN frames_cache :
          frames_cache[n].gen = datasets_cache.map[n] /\ frames_cache[n].gen > 0

\* C19: the step that answers a launch request 404 changes nothing else: no
\* dataset is loaded, no frames view computed, no thread or task started or
\* registered, and both caches and the library's storage stay as they were.
C19_NotFoundHasNoSideEffect ==
    [][(last'.op = "launch" /\ last'.code = 404)
          => UNCHANGED <<variant, storage, nextGen, datasets_cache, frames_cache,
                         phase, task, offloaded, hook, stop_calls>>]_vars

\* a 404 for a name the library stores, with another launch in flight and a
\* frames view cached
C19_Witness ==
    /\ last.op = "launch"
    /\ last.code = 404
    /\ storage[last.name].exists
    /\ frames_cache # <<>>
    /\ \E op \in Ops : op.kind = "launch" /\ op.awaiter = "pending"

\* C20: the step that answers a create-dataset request 400 leaves the
\* library's storage as it was: no dataset is deleted, none is made.
C20_MissingDirectoryKeepsStorage ==
    [][(last'.op = "create" /\ last'.code = 400)
          => /\ storage' = storage
             /\ nextGen' = nextGen
             /\ ~last'.deleted]_vars

\* a create with a missing directory for a name whose stored dataset is
\* still the one from before the run
C20_Witness ==
    /\ last.op = "create"
    /\ last.code = 400
    /\ ~FS[last.dir].exists
    /\ storage[last.name] = LegacyDataset

====
